---- MODULE Spec2Model ----
(***************************************************************************)
(* Model of the mkdocs categories plugin (categories/plugin.py).           *)
(*                                                                         *)
(* Strings are sequences of one-character strings, so that split, join,    *)
(* lower-casing, slugification and natural sorting are computed character  *)
(* by character as the Python code computes them.  Python dicts that the   *)
(* code iterates (self.categories) are sequences of nodes in insertion     *)
(* order; dicts that are only looked up (self.pages) are functions.        *)
(***************************************************************************)
EXTENDS Integers, Sequences, FiniteSets, TLC

VARIABLES
    categories,   \* CategoriesPlugin.categories: nodes in dict insertion order
    pages,        \* CategoriesPlugin.pages: page url -> set of category keys
    scratch,      \* the directory at self.cat_path on disk
    files,        \* the host's file collection handed to and returned by on_files
    nav,          \* the host's navigation handed to and returned by on_nav
    config,       \* self.config
    log,          \* what the last handler call sent to self.log
    raised,       \* exception the last handler call propagated, or "none"
    ret,          \* value the last call returned (None when it returns nothing)
    pc,           \* the handler the host called last
    declared,     \* history: the category paths passed to ensure_path since the stores were last empty
    builds,       \* number of builds started in this process
    calls,        \* number of direct calls of the store operations
    page          \* the page and markdown the host passed to on_page_markdown last

vars ==
    <<categories, pages, scratch, files, nav, config, log, raised, ret, pc, declared,
      builds, calls, page>>

-----------------------------------------------------------------------------
(* Bounds of the model *)

\* longest category path passed to ensure_path / register_page directly
MaxDepth == 2
\* number of direct store calls in one behaviour of SpecStore
MaxCalls == 2
\* number of categories entries in the front matter of one file collection
MaxCats == 2
\* number of builds run in one process
MaxBuilds == 2
\* number of top-level navigation items
MaxNav == 3
\* number of entries of the categories list of the page scanned in SpecSite
MaxListed == 3

-----------------------------------------------------------------------------
(* Python values *)

\* Python's None, comparable with strings (no string holds this element)
None == <<"None">>

\* the empty dict
EmptyDict == [k \in {} |-> {}]

\* category key separator used by "-".join
Dash == "-"

SeqsUpTo(S, n) == UNION {[1..k -> S] : k \in 0..n}

Range(s) == {s[i] : i \in 1..Len(s)}

\* the value bound to a local name: {body(x) : x \in {e}} evaluates e once
Only(S) == CHOOSE x \in S : TRUE

-----------------------------------------------------------------------------
(* Characters *)

UpperChars == <<"A", "B", "C", "D", "E", "I", "N", "T", "X">>
LowerChars == <<"a", "b", "c", "d", "e", "i", "n", "t", "x">>
DigitChars == <<"0", "1", "2", "3", "4", "5", "6", "7", "8", "9">>

\* the characters of the model in code point order
CodePoints ==
    <<" ", "#", "-">> \o DigitChars \o UpperChars \o <<"_">> \o LowerChars \o <<"|", "e'">>

Ord(c) == CHOOSE i \in 1..Len(CodePoints) : CodePoints[i] = c

IsDigit(c) == c \in Range(DigitChars)

DigitValue(c) == (CHOOSE i \in 1..Len(DigitChars) : DigitChars[i] = c) - 1

IsSpace(c) == c = " "

\* \w of the re module on an ASCII-only string
IsWord(c) == c \in Range(UpperChars) \cup Range(LowerChars) \cup Range(DigitChars) \cup {"_"}

LowerChar(c) ==
    IF c \in Range(UpperChars)
    THEN LowerChars[CHOOSE i \in 1..Len(UpperChars) : UpperChars[i] = c]
    ELSE c

\* str.lower()
Lower(s) == [i \in 1..Len(s) |-> LowerChar(s[i])]

-----------------------------------------------------------------------------
(* str.split(sep) and sep.join(list) *)

RECURSIVE SplitFrom(_, _, _)
SplitFrom(s, sep, cur) ==
    IF s = <<>> THEN <<cur>>
    ELSE IF Head(s) = sep THEN <<cur>> \o SplitFrom(Tail(s), sep, <<>>)
    ELSE SplitFrom(Tail(s), sep, Append(cur, Head(s)))

Split(s, sep) == SplitFrom(s, sep, <<>>)

RECURSIVE Join(_, _)
Join(sep, segs) ==
    IF segs = <<>> THEN <<>>
    ELSE IF Len(segs) = 1 THEN segs[1]
    ELSE segs[1] \o <<sep>> \o Join(sep, Tail(segs))

-----------------------------------------------------------------------------
(* slugify *)

\* NFKD normalisation followed by encode("ascii", "ignore"): an accented
\* letter decomposes into its base letter and a combining mark that is dropped
AsciiFold(s) == [i \in 1..Len(s) |-> IF s[i] = "e'" THEN "e" ELSE s[i]]

\* re.sub(r"[^\w\s-]", "", slug)
DropSymbols(s) == SelectSeq(s, LAMBDA c : IsWord(c) \/ IsSpace(c) \/ c = Dash)

RECURSIVE LStrip(_)
LStrip(s) == IF s # <<>> /\ IsSpace(Head(s)) THEN LStrip(Tail(s)) ELSE s

RECURSIVE RStrip(_)
RStrip(s) ==
    IF s # <<>> /\ IsSpace(s[Len(s)]) THEN RStrip(SubSeq(s, 1, Len(s) - 1)) ELSE s

Strip(s) == RStrip(LStrip(s))

\* re.sub(r"[-\s]+", "-", slug)
RECURSIVE CollapseRuns(_, _)
CollapseRuns(s, inRun) ==
    IF s = <<>> THEN <<>>
    ELSE IF Head(s) = Dash \/ IsSpace(Head(s))
         THEN (IF inRun THEN <<>> ELSE <<Dash>>) \o CollapseRuns(Tail(s), TRUE)
         ELSE <<Head(s)>> \o CollapseRuns(Tail(s), FALSE)

slugify(title) == CollapseRuns(Lower(Strip(DropSymbols(AsciiFold(title)))), FALSE)

-----------------------------------------------------------------------------
(* natsorted *)

\* the natsort key of a string: text chunks alternating with the values of
\* the digit runs, an empty text chunk put first when the string starts
\* with a digit
RECURSIVE NatChunks(_, _)
NatChunks(s, acc) ==
    IF s = <<>> THEN acc
    ELSE LET c == Head(s)
             n == Len(acc)
         IN IF IsDigit(c)
            THEN IF n > 0 /\ acc[n].num
                 THEN NatChunks(Tail(s),
                        [acc EXCEPT ![n].val = acc[n].val * 10 + DigitValue(c)])
                 ELSE NatChunks(Tail(s),
                        (IF n = 0 THEN <<[num |-> FALSE, val |-> 0, txt |-> <<>>]>> ELSE acc)
                        \o <<[num |-> TRUE, val |-> DigitValue(c), txt |-> <<>>]>>)
            ELSE IF n > 0 /\ ~acc[n].num
                 THEN NatChunks(Tail(s), [acc EXCEPT ![n].txt = Append(acc[n].txt, c)])
                 ELSE NatChunks(Tail(s), Append(acc, [num |-> FALSE, val |-> 0, txt |-> <<c>>]))

NatKey(s) == NatChunks(s, <<>>)

\* str < str by code points
RECURSIVE StrLess(_, _)
StrLess(a, b) ==
    IF b = <<>> THEN FALSE
    ELSE IF a = <<>> THEN TRUE
    ELSE IF Head(a) = Head(b) THEN StrLess(Tail(a), Tail(b))
    ELSE Ord(Head(a)) < Ord(Head(b))

\* tuple < tuple on natsort keys
RECURSIVE KeyLess(_, _)
KeyLess(a, b) ==
    IF b = <<>> THEN FALSE
    ELSE IF a = <<>> THEN TRUE
    ELSE IF Head(a) = Head(b) THEN KeyLess(Tail(a), Tail(b))
    ELSE IF Head(a).num THEN Head(a).val < Head(b).val
    ELSE StrLess(Head(a).txt, Head(b).txt)

\* NatLess of plain sorted(): the strings compared by code points
NatLessLexical(a, b) == StrLess(a, b)

\* natsort key of a < natsort key of b
NatLess(a, b) == KeyLess(NatKey(a), NatKey(b))

\* sorted() is stable: an item goes behind the items that do not sort after it
RECURSIVE InsertSorted(_, _)
InsertSorted(sorted, item) ==
    IF sorted = <<>> THEN <<item>>
    ELSE IF NatLess(item.k, Head(sorted).k) THEN <<item>> \o sorted
    ELSE <<Head(sorted)>> \o InsertSorted(Tail(sorted), item)

RECURSIVE SortItems(_, _)
SortItems(items, sorted) ==
    IF items = <<>> THEN sorted
    ELSE SortItems(Tail(items), InsertSorted(sorted, Head(items)))

\* natsorted(items, key=...) on a sequence of [k |-> sort string, v |-> item]
natsorted(items) ==
    LET s == SortItems(items, <<>>) IN [i \in 1..Len(s) |-> s[i].v]

-----------------------------------------------------------------------------
(* The category store: self.categories *)

Keys(cats) == {cats[i].key : i \in 1..Len(cats)}

\* cat_key in self.categories
HasKey(cats, k) == k \in Keys(cats)

IndexOf(cats, k) == CHOOSE i \in 1..Len(cats) : cats[i].key = k

\* self.categories[k]
Node(cats, k) == cats[IndexOf(cats, k)]

\* cat_key = "-".join(cat_path[: i + 1]), for the 1-based position i
CatKey(cat_path, i) == Join(Dash, SubSeq(cat_path, 1, i))

\* NewNode with the parent sliced one segment too far (cat_path[: i + 1])
NewNodeParentSlice(cat_path, i) ==
    [name     |-> cat_path[i],
     key      |-> CatKey(cat_path, i),
     slug     |-> slugify(CatKey(cat_path, i)),
     pages    |-> <<>>,
     parent   |-> IF i > 1 THEN CatKey(cat_path, i) ELSE None,
     children |-> <<>>]

\* the composite key of a whole path
PathKey(cat_path) == CatKey(cat_path, Len(cat_path))

\* the dict literal stored for a new category
NewNode(cat_path, i) ==
    [name     |-> cat_path[i],
     key      |-> CatKey(cat_path, i),
     slug     |-> slugify(CatKey(cat_path, i)),
     pages    |-> <<>>,
     parent   |-> IF i > 1 THEN CatKey(cat_path, i - 1) ELSE None,
     children |-> <<>>]

\* Define without the membership test: the dict entry is assigned every time
DefineUnguarded(cats, cat_path, i) ==
    [cats    |-> IF HasKey(cats, CatKey(cat_path, i))
                 THEN [cats EXCEPT ![IndexOf(cats, CatKey(cat_path, i))] = NewNode(cat_path, i)]
                 ELSE Append(cats, NewNode(cat_path, i)),
     defined |-> 1]

\* if cat_key not in self.categories: self.categories[cat_key] = {...}
Define(cats, cat_path, i) ==
    IF HasKey(cats, CatKey(cat_path, i))
    THEN [cats |-> cats, defined |-> 0]
    ELSE [cats |-> Append(cats, NewNode(cat_path, i)), defined |-> 1]

\* if len(result) > 0 and cat_key not in result["children"]:
\*     result["children"].append(cat_key)
\* result is the node of the previous step (the empty dict at the first step)
LinkChild(cats, result, cat_key) ==
    IF result # None /\ cat_key \notin Range(Node(cats, result).children)
    THEN [cats EXCEPT ![IndexOf(cats, result)].children = Append(@, cat_key)]
    ELSE cats

\* the for loop of ensure_path from position i on; result is the key of the
\* node the loop holds in `result`, None for the initial empty dict
RECURSIVE EnsureFrom(_, _, _, _, _)
EnsureFrom(cats, cat_path, i, result, defined) ==
    IF i > Len(cat_path)
    THEN [cats |-> cats, result |-> result, defined |-> defined]
    ELSE Only({EnsureFrom(linked, cat_path, i + 1, CatKey(cat_path, i), defined + d.defined) :
               <<d, linked>> \in {<<x, LinkChild(x.cats, result, CatKey(cat_path, i))>> :
                                  x \in {Define(cats, cat_path, i)}}})

\* ensure_path that materializes the last segment only
ensure_path_leaf_only(cats, cat_path) ==
    IF Len(cat_path) <= 0
    THEN [cats |-> cats, result |-> None, defined |-> 0]
    ELSE EnsureFrom(cats, cat_path, Len(cat_path), None, 0)

\* ensure_path: the store afterwards, the key of the returned node (None
\* for an empty path) and the number of categories it defined
ensure_path(cats, cat_path) ==
    IF Len(cat_path) <= 0
    THEN [cats |-> cats, result |-> None, defined |-> 0]
    ELSE EnsureFrom(cats, cat_path, 1, None, 0)

\* AttachPage that attaches the page to the parent of the node as well
AttachPageToParentToo(cats, key, page_url, page_title) ==
    [n \in 1..Len(cats) |->
        IF cats[n].key = key \/ cats[n].key = Node(cats, key).parent
        THEN [cats[n] EXCEPT !.pages = Append(@, [title |-> page_title, url |-> page_url])]
        ELSE cats[n]]

\* category["pages"].append({"title": page_title, "url": page_url})
AttachPage(cats, key, page_url, page_title) ==
    [cats EXCEPT ![IndexOf(cats, key)].pages =
        Append(@, [title |-> page_title, url |-> page_url])]

\* IndexPage that assigns a fresh set on every registration
IndexPageOverwrite(pgs, page_url, key) ==
    (page_url :> {key}) @@ pgs

\* self.pages[page_url].add(category["key"]), the set created when missing
IndexPage(pgs, page_url, key) ==
    IF page_url \in DOMAIN pgs
    THEN [pgs EXCEPT ![page_url] = @ \cup {key}]
    ELSE (page_url :> {key}) @@ pgs

\* register_page; subscripting the None that ensure_path returns for an
\* empty path raises TypeError before anything is attached
register_page(cats, pgs, cat_path, page_url, page_title) ==
    Only({IF e.result = None
          THEN [cats |-> e.cats, pages |-> pgs, defined |-> e.defined, raised |-> "TypeError"]
          ELSE [cats    |-> AttachPage(e.cats, e.result, page_url, page_title),
                pages   |-> IndexPage(pgs, page_url, e.result),
                defined |-> e.defined,
                raised  |-> "none"] :
          e \in {ensure_path(cats, cat_path)}})

\* the while loop of get_breadcrumb_keys; the loop has no bound of its own,
\* so a walk longer than the store has revisited a key and never ends
RECURSIVE BreadcrumbWalk(_, _, _)
BreadcrumbWalk(cats, current_key, lineage) ==
    IF ~(current_key # None /\ HasKey(cats, current_key))
    THEN [terminates |-> TRUE, lineage |-> lineage]
    ELSE IF Len(lineage) > Len(cats)
    THEN [terminates |-> FALSE, lineage |-> lineage]
    ELSE BreadcrumbWalk(cats, Node(cats, current_key).parent, <<current_key>> \o lineage)

\* get_breadcrumb_keys: lineage.append while walking up, then lineage.reverse()
get_breadcrumb_keys(cats, category_key) == BreadcrumbWalk(cats, category_key, <<>>)

\* get_category_by_parent: the nodes with the given parent, in dict order
get_category_by_parent(cats, parent_key) ==
    SelectSeq(cats, LAMBDA c : c.parent = parent_key)

-----------------------------------------------------------------------------
(* The metadata scanner: get_page_title and define_categories *)

\* get_page_title: the meta data title when it is a str, else the first
\* level heading of the page source, else the empty string.  A file entry
\* holds meta_title and h1 as sequences of at most one value.
get_page_title(file) ==
    IF file.meta_title # <<>> /\ file.meta_title_is_str
    THEN file.meta_title[1]
    ELSE IF file.h1 # <<>> THEN file.h1[1] ELSE <<>>

\* the inner for loop of define_categories over meta_data["categories"]
\* from entry j on; st holds the stores, what was logged and the paths passed on
RECURSIVE RegisterAll(_, _, _, _, _)
RegisterAll(st, file, items, j, sep) ==
    IF j > Len(items) \/ st.raised # "none" THEN st
    ELSE Only({RegisterAll(nxt, file, items, j + 1, sep) :
               nxt \in {[cats     |-> r.cats,
                         pages    |-> r.pages,
                         errors   |-> st.errors,
                         defined  |-> st.defined + r.defined,
                         raised   |-> r.raised,
                         declared |-> st.declared \cup {Split(items[j], sep)}] :
                        r \in {register_page(st.cats, st.pages, Split(items[j], sep),
                                             file.src_path, get_page_title(file))}}})

\* the body of the outer for loop of define_categories for one page.  The
\* arguments of self.log.error are evaluated before the call, and
\* meta_data["categories"].__name__ raises AttributeError for every value a
\* front matter can hold, so nothing is logged on that path.
ScanPage(st, file, sep) ==
    IF file.categories.kind = "absent" THEN st
    ELSE IF file.categories.kind # "list" THEN [st EXCEPT !.raised = "AttributeError"]
    ELSE RegisterAll(st, file, file.categories.items, 1, sep)

\* the outer for loop of define_categories over the documentation pages
RECURSIVE ScanFrom(_, _, _, _)
ScanFrom(st, fs, i, sep) ==
    IF i > Len(fs) \/ st.raised # "none" THEN st
    ELSE Only({ScanFrom(nxt, fs, i + 1, sep) :
               nxt \in {IF fs[i].is_doc THEN ScanPage(st, fs[i], sep) ELSE st}})

define_categories(cats, pgs, fs, cfg) ==
    ScanFrom([cats |-> cats, pages |-> pgs, errors |-> 0, defined |-> 0,
              raised |-> "none", declared |-> {}],
             fs, 1, cfg.category_separator)

-----------------------------------------------------------------------------
(* The renderer: the documents on_files writes *)

MdSuffix == ".md"

\* f"{category['slug']}.md"
FileName(slug) == Append(slug, MdSuffix)

IndexFileName == <<"i", "n", "d", "e", "x", MdSuffix>>

\* [name](./slug.md)
CategoryLink(node) == [text |-> node.name, target |-> FileName(node.slug)]

\* render_category_pages: the page links natsorted by title; the empty
\* sequence stands for (False, None), rendered as "This category has no pages."
render_category_pages(category) ==
    natsorted([i \in 1..Len(category.pages) |->
                  [k |-> category.pages[i].title,
                   v |-> [text |-> category.pages[i].title, target |-> category.pages[i].url]]])

\* render_child_categories: links to the children natsorted by key; the
\* empty sequence stands for (False, None)
render_child_categories(cats, category) ==
    natsorted([i \in 1..Len(category.children) |->
                  [k |-> category.children[i],
                   v |-> CategoryLink(Node(cats, category.children[i]))]])

\* render_parent_category: no link when the parent is None or the empty
\* string (`not category["parent"]`); a sequence of at most one link
render_parent_category(cats, category) ==
    IF category.parent = None \/ category.parent = <<>>
    THEN <<>>
    ELSE <<CategoryLink(Node(cats, category.parent))>>

\* render_all_categories_link
render_all_categories_link(cfg) == cfg.generate_index

\* the text on_files writes for one category
CategoryDocument(cats, category, cfg) ==
    [heading  |-> category.name,
     parent   |-> render_parent_category(cats, category),
     children |-> render_child_categories(cats, category),
     pages    |-> render_category_pages(category),
     all_link |-> render_all_categories_link(cfg)]

\* render_category_hierarchy: one line per category under parent_key,
\* siblings natsorted by name, each followed by the lines of its subtree
RECURSIVE render_category_hierarchy(_, _, _)
RECURSIVE RenderSiblings(_, _, _)

\* RenderSiblings that recurses without increasing indent_level
RenderSiblingsSameIndent(cats, siblings, indent_level) ==
    IF siblings = <<>> THEN <<>>
    ELSE <<[indent |-> indent_level,
            link   |-> CategoryLink(Head(siblings)),
            count  |-> Len(Head(siblings).pages)]>>
         \o render_category_hierarchy(cats, Head(siblings).key, indent_level)
         \o RenderSiblings(cats, Tail(siblings), indent_level)

\* the for loop of render_category_hierarchy over the sorted children
RenderSiblings(cats, siblings, indent_level) ==
    IF siblings = <<>> THEN <<>>
    ELSE <<[indent |-> indent_level,
            link   |-> CategoryLink(Head(siblings)),
            count  |-> Len(Head(siblings).pages)]>>
         \o render_category_hierarchy(cats, Head(siblings).key, indent_level + 1)
         \o RenderSiblings(cats, Tail(siblings), indent_level)

render_category_hierarchy(cats, parent_key, indent_level) ==
    LET children == get_category_by_parent(cats, parent_key)
    IN RenderSiblings(cats,
                      natsorted([i \in 1..Len(children) |->
                                    [k |-> children[i].name, v |-> children[i]]]),
                      indent_level)

\* the text generate_index writes
IndexDocument(cats) ==
    [total |-> Len(cats), lines |-> render_category_hierarchy(cats, None, 0)]

\* the File object appended to the host's collection for a generated document
GeneratedFile(name) ==
    [src_path       |-> name,
     is_doc         |-> TRUE,
     generated      |-> TRUE,
     meta_title     |-> <<>>,
     meta_title_is_str |-> FALSE,
     h1             |-> <<>>,
     categories     |-> [kind |-> "absent", items |-> <<>>]]

-----------------------------------------------------------------------------
(* The back-reference section: on_page_markdown *)

\* get_relative_url(str(self.cat_path), page.file.src_uri): the way from the
\* page to the directory of the category documents
get_relative_url(src_uri) == [to_categories_from |-> src_uri]

\* [name](relative_url/slug.md)
PageLink(node, relative_url) ==
    [text |-> node.name, target |-> <<relative_url, FileName(node.slug)>>]

\* get_breadcrumb_links: one link per key of the lineage, root first
get_breadcrumb_links(cats, category_key, relative_url) ==
    Only({[i \in 1..Len(l) |-> PageLink(Node(cats, l[i]), relative_url)] :
          l \in {get_breadcrumb_keys(cats, category_key).lineage}})

\* the orders in which iterating a set can yield its elements
SetOrders(S) ==
    {o \in [1..Cardinality(S) -> S] : \A i, j \in 1..Cardinality(S) : o[i] = o[j] => i = j}

\* on_page_markdown that renders the direct link whatever show_breadcrumbs is
on_page_markdown_direct_only(cats, pgs, cfg, markdown, src_uri, order) ==
    IF src_uri \notin DOMAIN pgs
    THEN [markdown |-> markdown, appended |-> <<>>]
    ELSE [markdown |-> markdown,
          appended |->
              <<[heading   |-> cfg.section_title,
                 separator |-> cfg.breadcrumb_separator,
                 lines     |->
                     Only({[i \in 1..Len(sorted) |->
                               <<PageLink(Node(cats, sorted[i]), get_relative_url(src_uri))>>] :
                           sorted \in {natsorted([i \in 1..Len(order) |->
                                                    [k |-> order[i], v |-> order[i]]])}})]>>]

\* on_page_markdown: the markdown it returns, as the body it was given and
\* the section it appended (none for a page that is not in self.pages).
\* order is the order in which the set self.pages[src_uri] is iterated;
\* natsorted keeps it for keys that sort equal.
on_page_markdown(cats, pgs, cfg, markdown, src_uri, order) ==
    IF src_uri \notin DOMAIN pgs
    THEN [markdown |-> markdown, appended |-> <<>>]
    ELSE [markdown |-> markdown,
          appended |->
              <<[heading   |-> cfg.section_title,
                 separator |-> cfg.breadcrumb_separator,
                 lines     |->
                     Only({[i \in 1..Len(sorted) |->
                               IF cfg.show_breadcrumbs
                               THEN get_breadcrumb_links(cats, sorted[i],
                                                         get_relative_url(src_uri))
                               ELSE <<PageLink(Node(cats, sorted[i]),
                                               get_relative_url(src_uri))>>] :
                           sorted \in {natsorted([i \in 1..Len(order) |->
                                                    [k |-> order[i], v |-> order[i]]])}})]>>]

-----------------------------------------------------------------------------
(* The scratch directory and the handlers' effects *)

AbsentDir == [exists |-> FALSE, docs |-> EmptyDict]

EmptyDir == [exists |-> TRUE, docs |-> EmptyDict]

\* WriteDoc that keeps a file that is already there (mode="x" semantics
\* without the error)
WriteDocKeepFirst(dir, name, doc) ==
    [dir EXCEPT !.docs = dir.docs @@ (name :> doc)]

\* open(path, mode="w") followed by write: needs the directory, replaces
\* the file of that name
WriteDoc(dir, name, doc) ==
    [dir EXCEPT !.docs = (name :> doc) @@ dir.docs]

\* clean_temp_dir with the debug_fs test inverted
clean_temp_dir_inverted(dir, cfg) ==
    IF ~cfg.debug_fs THEN [scratch |-> dir, raised |-> "none"]
    ELSE IF ~dir.exists THEN [scratch |-> dir, raised |-> "FileNotFoundError"]
    ELSE [scratch |-> AbsentDir, raised |-> "none"]

\* clean_temp_dir: returns early under debug_fs; shutil.rmtree raises
\* FileNotFoundError when the directory is not there
clean_temp_dir(dir, cfg) ==
    IF cfg.debug_fs THEN [scratch |-> dir, raised |-> "none"]
    ELSE IF ~dir.exists THEN [scratch |-> dir, raised |-> "FileNotFoundError"]
    ELSE [scratch |-> AbsentDir, raised |-> "none"]

\* Path.mkdir(parents=True): raises FileExistsError when the path exists
Mkdir(dir) ==
    IF dir.exists THEN [scratch |-> dir, raised |-> "FileExistsError"]
    ELSE [scratch |-> EmptyDir, raised |-> "none"]

\* on_config: clean a directory that exists, then create it
on_config(dir, cfg) ==
    Only({IF cleaned.raised # "none" THEN cleaned ELSE Mkdir(cleaned.scratch) :
          cleaned \in {IF dir.exists THEN clean_temp_dir(dir, cfg)
                       ELSE [scratch |-> dir, raised |-> "none"]}})

\* the for loop of on_files over self.categories.values() from node i on:
\* write the category document, append its File; fail_at is the number of
\* the write on which the disk fails (0: never)
RECURSIVE WriteFrom(_, _, _, _, _)
WriteFrom(st, cats, i, cfg, fail_at) ==
    IF i > Len(cats) \/ st.raised # "none" THEN st
    ELSE IF ~st.scratch.exists
    THEN [st EXCEPT !.raised = "FileNotFoundError"]
    ELSE IF st.writes + 1 = fail_at
    THEN [st EXCEPT !.raised = "OSError"]
    ELSE Only({WriteFrom(nxt, cats, i + 1, cfg, fail_at) :
               nxt \in {[scratch |-> WriteDoc(st.scratch, FileName(cats[i].slug),
                                              CategoryDocument(cats, cats[i], cfg)),
                         files   |-> Append(st.files, GeneratedFile(FileName(cats[i].slug))),
                         writes  |-> st.writes + 1,
                         raised  |-> "none"]}})

\* if self.config["generate_index"]: files.append(self.generate_index(config))
WriteIndex(st, cats, cfg, fail_at) ==
    IF st.raised # "none" \/ ~cfg.generate_index THEN st
    ELSE IF ~st.scratch.exists
    THEN [st EXCEPT !.raised = "FileNotFoundError"]
    ELSE IF st.writes + 1 = fail_at
    THEN [st EXCEPT !.raised = "OSError"]
    ELSE [scratch |-> WriteDoc(st.scratch, IndexFileName, IndexDocument(cats)),
          files   |-> Append(st.files, GeneratedFile(IndexFileName)),
          writes  |-> st.writes + 1,
          raised  |-> "none"]

\* on_files: scan, then write one document per category and the index
\* the second half of on_files: the documents of the scanned store d
WriteAll(d, dir, fs, cfg, fail_at) ==
    IF d.raised # "none"
    THEN [scratch |-> dir, files |-> fs, writes |-> 0, raised |-> d.raised]
    ELSE Only({WriteIndex(w, d.cats, cfg, fail_at) :
               w \in {WriteFrom([scratch |-> dir, files |-> fs, writes |-> 0,
                                 raised |-> "none"],
                                d.cats, 1, cfg, fail_at)}})

on_files(cats, pgs, dir, fs, cfg, fail_at) ==
    Only({[cats     |-> d.cats,
           pages    |-> d.pages,
           scratch  |-> w.scratch,
           files    |-> w.files,
           log      |-> [errors |-> d.errors, defined |-> d.defined],
           raised   |-> w.raised,
           declared |-> d.declared] :
          <<d, w>> \in {<<x, WriteAll(x, dir, fs, cfg, fail_at)>> :
                        x \in {define_categories(cats, pgs, fs, cfg)}}})

-----------------------------------------------------------------------------
(* Configuration: config_scheme *)

DefaultConfig ==
    [generate_index       |-> TRUE,
     verbose              |-> FALSE,
     no_nav               |-> FALSE,
     base_name            |-> <<"c", "a", "t", "e", "g", "o", "r", "i", "e", "s">>,
     section_title        |-> <<"C", "a", "t", "e", "g", "o", "r", "i", "e", "s">>,
     category_separator   |-> "|",
     debug_fs             |-> FALSE,
     show_breadcrumbs     |-> FALSE,
     breadcrumb_separator |-> <<">">>]

\* what a handler call logs: error records and "Defined new category" records
NoLog == [errors |-> 0, defined |-> 0]

\* the class attributes before any handler has run
InitPlugin ==
    /\ categories = <<>>
    /\ pages = EmptyDict
    /\ log = NoLog
    /\ raised = "none"
    /\ ret = None
    /\ pc = "idle"
    /\ declared = {}
    /\ builds = 0
    /\ calls = 0
    /\ page = None

-----------------------------------------------------------------------------
(* SpecStore: the store operations called directly, in any order *)

Segments == {<<"A">>, <<"A", "-", "A">>}

CatPaths == SeqsUpTo(Segments, MaxDepth)

PageUrls == {<<"p", "1">>, <<"p", "2">>}

PageTitles == {<<"T", "1">>}

InitStore ==
    /\ InitPlugin
    /\ config = DefaultConfig
    /\ scratch = AbsentDir
    /\ files = <<>>
    /\ nav = <<>>

EnsurePath(cat_path) ==
    /\ calls < MaxCalls
    /\ \E e \in {ensure_path(categories, cat_path)} :
          /\ categories' = e.cats
          /\ log' = [errors |-> 0, defined |-> e.defined]
          /\ ret' = e.result
    /\ raised' = "none"
    /\ pc' = "ensure_path"
    /\ declared' = declared \cup {cat_path}
    /\ calls' = calls + 1
    /\ UNCHANGED <<pages, scratch, files, nav, config, builds, page>>

RegisterPage(cat_path, page_url, page_title) ==
    /\ calls < MaxCalls
    /\ \E r \in {register_page(categories, pages, cat_path, page_url, page_title)} :
          /\ categories' = r.cats
          /\ pages' = r.pages
          /\ log' = [errors |-> 0, defined |-> r.defined]
          /\ raised' = r.raised
    /\ ret' = None
    /\ pc' = "register_page"
    /\ declared' = declared \cup {cat_path}
    /\ calls' = calls + 1
    /\ UNCHANGED <<scratch, files, nav, config, builds, page>>

GetBreadcrumbKeys(category_key) ==
    /\ calls < MaxCalls
    /\ \E b \in {get_breadcrumb_keys(categories, category_key)} :
          /\ ret' = IF b.terminates THEN b.lineage ELSE None
          /\ raised' = IF b.terminates THEN "none" ELSE "MemoryError"
    /\ log' = NoLog
    /\ pc' = "get_breadcrumb_keys"
    /\ calls' = calls + 1
    /\ UNCHANGED <<categories, pages, scratch, files, nav, config, declared, builds, page>>

NextStore ==
    \/ \E cat_path \in CatPaths : EnsurePath(cat_path)
    \/ \E category_key \in Keys(categories) : GetBreadcrumbKeys(category_key)
    \/ \E cat_path \in CatPaths, page_url \in PageUrls, page_title \in PageTitles :
          RegisterPage(cat_path, page_url, page_title)

SpecStore == InitStore /\ [][NextStore]_vars

-----------------------------------------------------------------------------
(* Spec: the build lifecycle as the host drives it.  mkdocs runs on_config, *)
(* on_files and on_post_build in this order inside one try block and calls  *)
(* on_build_error when anything inside it raises, also after on_post_build. *)

Configs ==
    {[DefaultConfig EXCEPT !.debug_fs = d, !.generate_index = g] : d \in BOOLEAN, g \in BOOLEAN}

\* a document left behind by an interrupted run
StaleDir ==
    [exists |-> TRUE,
     docs   |-> (<<"o", "l", "d", MdSuffix>> :>
                    [heading |-> <<"o", "l", "d">>, parent |-> <<>>, children |-> <<>>,
                     pages |-> <<>>, all_link |-> TRUE])]

InitialDirs == {AbsentDir, StaleDir}

\* the values of a categories entry of the front matter
CatStrings == {<<"A">>, <<"A", "|", "B">>, <<"A", "-", "B">>}

\* meta_data["categories"]: missing, a plain string, or a list
CatMetas ==
    {[kind |-> "absent", items |-> <<>>], [kind |-> "str", items |-> <<>>]}
    \cup {[kind |-> "list", items |-> l] : l \in SeqsUpTo(CatStrings, MaxCats)}

\* title in the meta data and first level heading of the page body
TitleSources ==
    {[meta_title |-> <<<<"T", "1">>>>, meta_title_is_str |-> TRUE, h1 |-> <<<<"T", "2">>>>],
     [meta_title |-> <<<<"5">>>>, meta_title_is_str |-> FALSE, h1 |-> <<<<"T", "2">>>>]}

DocFiles ==
    {[src_path          |-> p,
      is_doc            |-> TRUE,
      generated         |-> FALSE,
      meta_title        |-> t.meta_title,
      meta_title_is_str |-> t.meta_title_is_str,
      h1                |-> t.h1,
      categories        |-> c] : p \in PageUrls, t \in TitleSources, c \in CatMetas}

\* a file that is no documentation page; it is never opened
MediaFiles ==
    {[src_path          |-> p,
      is_doc            |-> FALSE,
      generated         |-> FALSE,
      meta_title        |-> <<>>,
      meta_title_is_str |-> FALSE,
      h1                |-> <<>>,
      categories        |-> [kind |-> "absent", items |-> <<>>]] : p \in PageUrls}

\* the number of categories entries the files of a collection declare
RECURSIVE CountCats(_)
CountCats(fs) ==
    IF fs = <<>> THEN 0 ELSE Len(Head(fs).categories.items) + CountCats(Tail(fs))

\* the file collections the host hands to on_files: source paths are distinct
FileSets ==
    {fs \in SeqsUpTo(DocFiles \cup MediaFiles, Cardinality(PageUrls)) :
        /\ \A i \in 1..Len(fs) : \A j \in 1..Len(fs) :
              fs[i].src_path = fs[j].src_path => i = j
        /\ CountCats(fs) <= MaxCats}

\* the write of on_files on which the disk fails with OSError (0: none)
WriteFailures == {0, 2}

Init ==
    /\ InitPlugin
    /\ config \in Configs
    /\ scratch \in InitialDirs
    /\ files = <<>>
    /\ nav = <<>>

\* the host starts a build: no build is running
OnConfig ==
    /\ \/ pc = "idle"
       \/ pc = "on_post_build" /\ raised = "none"
       \/ pc = "on_build_error"
    /\ builds < MaxBuilds
    /\ \E r \in {on_config(scratch, config)} :
          /\ scratch' = r.scratch
          /\ raised' = r.raised
    /\ pc' = "on_config"
    /\ files' = <<>>
    /\ log' = NoLog
    /\ ret' = None
    /\ builds' = builds + 1
    /\ UNCHANGED <<categories, pages, nav, config, declared, calls, page>>

OnFiles(fs, fail_at) ==
    /\ pc = "on_config"
    /\ raised = "none"
    /\ \E r \in {on_files(categories, pages, scratch, fs, config, fail_at)} :
          /\ categories' = r.cats
          /\ pages' = r.pages
          /\ scratch' = r.scratch
          /\ files' = r.files
          /\ log' = r.log
          /\ raised' = r.raised
          /\ declared' = declared \cup r.declared
    /\ pc' = "on_files"
    /\ ret' = None
    /\ UNCHANGED <<nav, config, builds, calls, page>>

\* a finalizer that leaves both dicts as they are
StoresNotCleared == [cats |-> categories, pages |-> pages]

\* self.categories.clear(); self.pages.clear()
StoresCleared == [cats |-> <<>>, pages |-> EmptyDict]

\* self.categories.clear(); self.pages.clear(); self.clean_temp_dir()
Finalize(handler) ==
    /\ categories' = StoresCleared.cats
    /\ pages' = StoresCleared.pages
    /\ \E c \in {clean_temp_dir(scratch, config)} :
          /\ scratch' = c.scratch
          /\ raised' = c.raised
    /\ pc' = handler
    /\ log' = NoLog
    /\ ret' = None
    /\ declared' = {}
    /\ UNCHANGED <<files, nav, config, builds, calls, page>>

OnPostBuild ==
    /\ pc = "on_files"
    /\ raised = "none"
    /\ Finalize("on_post_build")

\* a handler of this plugin raised, or something else in the build did
OnBuildError ==
    /\ pc \in {"on_config", "on_files", "on_post_build"}
    /\ Finalize("on_build_error")

Next ==
    \/ OnConfig
    \/ \E fs \in FileSets, fail_at \in WriteFailures : OnFiles(fs, fail_at)
    \/ OnPostBuild
    \/ OnBuildError

Spec == Init /\ [][Next]_vars

-----------------------------------------------------------------------------
(* SpecSite: one build of a site up to the rendering of its pages: on_config, *)
(* on_files on a page that lists categories and one that lists none, then    *)
(* on_page_markdown for the pages of the collection.                         *)

SiteConfigs ==
    {[DefaultConfig EXCEPT !.generate_index = g, !.show_breadcrumbs = b] :
        g \in BOOLEAN, b \in BOOLEAN}

\* the values of a categories entry: numerals that sort naturally ("2" before
\* "10"), two that sort equal ("2", "02"), a two-segment path, names whose
\* key or slug is that of the two-segment path, and the name of the index
SiteCatStrings ==
    {<<"2">>, <<"0", "2">>, <<"1", "0">>, <<"2", "|", "1", "0">>,
     <<"2", " ", "1", "0">>, <<"2", "-", "1", "0">>, <<"I", "n", "d", "e", "x">>}

SitePage(src_path, cats) ==
    [src_path          |-> src_path,
     is_doc            |-> TRUE,
     generated         |-> FALSE,
     meta_title        |-> <<<<"T", "1">>>>,
     meta_title_is_str |-> TRUE,
     h1                |-> <<>>,
     categories        |-> cats]

SiteFileSets ==
    {<<SitePage(<<"p", "1">>, [kind |-> "list", items |-> l]),
       SitePage(<<"p", "2">>, [kind |-> "absent", items |-> <<>>])>> :
        l \in SeqsUpTo(SiteCatStrings, MaxListed)}

\* the markdown bodies of a page
Bodies == {<<"#", " ", "T", "1">>}

\* the host renders the documentation pages of the collection one after the
\* other: the page that follows entry `last` of the collection
NextDoc(last) ==
    {i \in (last + 1)..Len(files) :
        files[i].is_doc /\ \A j \in (last + 1)..(i - 1) : ~files[j].is_doc}

InitSite ==
    /\ InitPlugin
    /\ config \in SiteConfigs
    /\ scratch = AbsentDir
    /\ files = <<>>
    /\ nav = <<>>

\* the host renders entry i of the collection after on_files
OnPageMarkdown(i, markdown) ==
    /\ pc \in {"on_files", "on_page_markdown"}
    /\ raised = "none"
    /\ i \in NextDoc(IF pc = "on_files" THEN 0 ELSE page.index)
    /\ \E order \in SetOrders(IF files[i].src_path \in DOMAIN pages
                               THEN pages[files[i].src_path] ELSE {}) :
          ret' = on_page_markdown(categories, pages, config, markdown,
                                  files[i].src_path, order)
    /\ page' = [index |-> i, src_uri |-> files[i].src_path, markdown |-> markdown]
    /\ pc' = "on_page_markdown"
    /\ log' = NoLog
    /\ UNCHANGED <<categories, pages, scratch, files, nav, config, raised, declared,
                   builds, calls>>

NextSite ==
    \/ OnConfig
    \/ \E fs \in SiteFileSets : OnFiles(fs, 0)
    \/ \E i \in 1..Len(files), markdown \in Bodies : OnPageMarkdown(i, markdown)

SpecSite == InitSite /\ [][NextSite]_vars

-----------------------------------------------------------------------------
(* SpecNav: on_nav on the navigation the host has built *)

\* for item in nav: if item.is_section and str(item.title).lower() ==
\* self.config["base_name"]: nav.items.remove(item); break
RECURSIVE RemoveSection(_, _)
RemoveSection(items, base_name) ==
    IF items = <<>> THEN <<>>
    ELSE IF Head(items).is_section /\ Lower(Head(items).title) = base_name
    THEN Tail(items)
    ELSE <<Head(items)>> \o RemoveSection(Tail(items), base_name)

\* on_nav: the navigation it returns
on_nav(items, cfg) ==
    IF ~cfg.no_nav THEN items ELSE RemoveSection(items, cfg.base_name)

BaseNames == {<<"c", "a", "t">>, <<"C", "a", "t">>}

NavTitles == {<<"c", "a", "t">>, <<"C", "a", "t">>, <<"C", "A", "T">>, <<"t", "i", "c">>}

\* top-level navigation items: sections and pages with a title
NavItems == [is_section : BOOLEAN, title : NavTitles]

NavConfigs ==
    {[DefaultConfig EXCEPT !.no_nav = n, !.base_name = b] : n \in BOOLEAN, b \in BaseNames}

InitNav ==
    /\ InitPlugin
    /\ config \in NavConfigs
    /\ scratch = EmptyDir
    /\ files = <<>>
    /\ nav \in SeqsUpTo(NavItems, MaxNav)

OnNav ==
    /\ pc = "idle"
    /\ nav' = on_nav(nav, config)
    /\ pc' = "on_nav"
    /\ UNCHANGED <<categories, pages, scratch, files, config, log, raised, ret, declared,
                   builds, calls, page>>

NextNav == OnNav

SpecNav == InitNav /\ [][NextNav]_vars

-----------------------------------------------------------------------------
(* Claims about the category store, checked under SpecStore *)

\* the composite keys of the non-empty prefixes of the paths declared so far
DeclaredPrefixKeys == UNION {{CatKey(P, i) : i \in 1..Len(P)} : P \in declared}

\* C3: ensure_path(P) called again right after ensure_path(P) defines no
\* category and leaves the store as the first call left it, the store then
\* holds exactly one node for each prefix key of P, and no two nodes of the
\* store ever have the same key.
C3_EnsurePathIdempotent ==
    /\ \A i \in 1..Len(categories) : \A j \in 1..Len(categories) :
          categories[i].key = categories[j].key => i = j
    /\ \A P \in CatPaths :
          LET first  == ensure_path(categories, P)
              second == ensure_path(first.cats, P)
          IN /\ second.defined = 0
             /\ second.cats = first.cats
             /\ Len(second.cats) = Len(first.cats)
             /\ second.result = first.result
             /\ \A i \in 1..Len(P) :
                   Cardinality({n \in 1..Len(second.cats) :
                                   second.cats[n].key = CatKey(P, i)}) = 1

\* C3 witness: a path was registered a second time and nothing was defined
C3_Witness ==
    /\ pc = "ensure_path"
    /\ calls >= 2
    /\ log.defined = 0
    /\ ret # None
    /\ Len(categories) = 2

\* C4: the keys of the store are exactly the composite keys of the non-empty
\* prefixes of the declared paths, and every node's parent is None or the
\* key of a node of the store.
C4_PrefixComplete ==
    /\ Keys(categories) = DeclaredPrefixKeys
    /\ \A i \in 1..Len(categories) :
          categories[i].parent = None \/ HasKey(categories, categories[i].parent)

\* C4 witness: a two-segment path is registered while its first segment was
\* never declared on its own, and the ancestor node exists
C4_Witness ==
    /\ pc = "register_page"
    /\ \E P \in declared :
          /\ Len(P) = 2
          /\ <<P[1]>> \notin declared
          /\ HasKey(categories, P[1])
          /\ Node(categories, PathKey(P)).parent = P[1]

\* C5: for every key of the store the breadcrumb walk terminates, and the
\* lineage starts at a root node, ends at the given key, links each element
\* to the next by the parent field and repeats no key.
C5_BreadcrumbLineage ==
    \A k \in Keys(categories) :
        LET b == get_breadcrumb_keys(categories, k)
            l == b.lineage
        IN /\ b.terminates
           /\ l # <<>>
           /\ Node(categories, l[1]).parent = None
           /\ l[Len(l)] = k
           /\ \A i \in 1..Len(l) - 1 : Node(categories, l[i + 1]).parent = l[i]
           /\ \A i \in 1..Len(l) : \A j \in 1..Len(l) : l[i] = l[j] => i = j

\* C5 witness: get_breadcrumb_keys returned the lineage of a child category
C5_Witness ==
    /\ pc = "get_breadcrumb_keys"
    /\ raised = "none"
    /\ Len(ret) = 2
    /\ Node(categories, ret[2]).parent = ret[1]

-----------------------------------------------------------------------------
(* Claims about the build lifecycle, checked under Spec *)

\* the entries of the collection that the host handed to on_files
InputFiles == SelectSeq(files, LAMBDA f : ~f.generated)

\* a page whose categories value is present but is no list
Malformed(f) == f.is_doc /\ ~f.generated /\ f.categories.kind = "str"

\* a page that declares a list of categories
Categorized(f) == f.is_doc /\ ~f.generated /\ f.categories.kind = "list"

\* C1: a page whose categories value is not a list is not fatal to the scan:
\* on_files raises nothing for it, an error is logged, the page gets no Page
\* Index entry, and the categories of every later page are registered.
C1_MalformedNonFatal ==
    pc = "on_files" =>
        \A i \in 1..Len(files) :
            Malformed(files[i]) =>
                /\ raised # "AttributeError"
                /\ log.errors >= 1
                /\ files[i].src_path \notin DOMAIN pages
                /\ \A j \in (i + 1)..Len(files) :
                      Categorized(files[j]) =>
                          \A c \in Range(files[j].categories.items) :
                              /\ files[j].src_path \in DOMAIN pages
                              /\ PathKey(Split(c, config.category_separator))
                                    \in pages[files[j].src_path]

\* C2: two category paths of one build that differ in any segment are never
\* mapped to the same composite key, so they never share one node.
C2_KeyIdentifiesPath ==
    \A P \in declared : \A Q \in declared :
        (P # <<>> /\ Q # <<>> /\ P # Q) => PathKey(P) # PathKey(Q)

\* the scan reached entry i of the collection: no entry up to it stopped it
Scanned(i) == \A j \in 1..i : ~Malformed(files[j])

\* C6: after the scan, a page registered under a declared category string is
\* in the Page Index under the "-"-join of the split string, the node of
\* that key holds the page's {title, url}, and the pages section rendered
\* for the node lists the title; and in every state a key is in pages[p]
\* exactly if the node of that key has a page entry with url p.
C6_RoundTrip ==
    /\ \A p \in DOMAIN pages : pages[p] \subseteq Keys(categories)
    /\ \A n \in 1..Len(categories) : \A p \in PageUrls :
          (p \in DOMAIN pages /\ categories[n].key \in pages[p])
              <=> (\E e \in Range(categories[n].pages) : e.url = p)
    /\ pc = "on_files" =>
          \A i \in 1..Len(files) :
              (Categorized(files[i]) /\ Scanned(i)) =>
                  \A c \in Range(files[i].categories.items) :
                      LET p == files[i].src_path
                          t == get_page_title(files[i])
                          k == Join(Dash, Split(c, config.category_separator))
                      IN /\ p \in DOMAIN pages
                         /\ k \in pages[p]
                         /\ HasKey(categories, k)
                         /\ [title |-> t, url |-> p] \in Range(Node(categories, k).pages)
                         /\ [text |-> t, target |-> p]
                               \in Range(render_category_pages(Node(categories, k)))

\* C6 witness: a page declared "A|B" and two categories in all, and the scan
\* registered it under "A-B"
C6_Witness ==
    /\ pc = "on_files"
    /\ raised = "none"
    /\ \E i \in 1..Len(files) :
          /\ Categorized(files[i])
          /\ Len(files[i].categories.items) = 2
          /\ <<"A", "|", "B">> \in Range(files[i].categories.items)
          /\ files[i].src_path \in DOMAIN pages
          /\ <<"A", "-", "B">> \in pages[files[i].src_path]
          /\ Cardinality(pages[files[i].src_path]) = 2

\* on_config of the running build has succeeded
Initialized ==
    \/ pc = "on_config" /\ raised = "none"
    \/ pc \in {"on_files", "on_post_build"}

\* C7: when on_post_build or on_build_error ends a build that on_config
\* initialized, both stores are empty afterwards and the scratch directory
\* is gone if debug_fs is false and still there if debug_fs is true.
C7_Finalization ==
    [][(Initialized /\ pc' \in {"on_post_build", "on_build_error"} /\ pc' # pc)
          => /\ categories' = <<>>
             /\ pages' = EmptyDict
             /\ scratch'.exists = config.debug_fs]_vars

\* C7 witness: on_build_error has cleaned up after an on_files that had
\* written documents
C7_Witness ==
    /\ pc = "on_build_error"
    /\ Len(files) > Len(InputFiles)
    /\ ~config.debug_fs
    /\ ~scratch.exists
    /\ categories = <<>>

\* C8: on_config never fails on a stale scratch directory: it raises
\* nothing and leaves the directory in place, empty when debug_fs is false
\* and as it was found when debug_fs is true.
C8_StaleDirAccepted ==
    [][(pc' = "on_config" /\ pc # "on_config")
          => /\ raised' = "none"
             /\ scratch'.exists
             /\ (scratch.exists /\ ~config.debug_fs) => scratch' = EmptyDir
             /\ (scratch.exists /\ config.debug_fs) => scratch' = scratch]_vars

\* C9: with debug_fs false, the stores, the scratch directory and the file
\* collection after on_files are those a fresh process produces from the
\* same file collection, whatever ran in this process or was on disk before.
C9_NoResidue ==
    (pc = "on_files" /\ ~config.debug_fs) =>
        \E fail_at \in WriteFailures :
            LET fresh == on_files(<<>>, EmptyDict, EmptyDir, InputFiles, config, fail_at)
            IN /\ categories = fresh.cats
               /\ pages = fresh.pages
               /\ scratch = fresh.scratch
               /\ files = fresh.files
               /\ raised = fresh.raised

\* C9 witness: the second build of the process has run on_files and
\* generated documents
C9_Witness ==
    /\ pc = "on_files"
    /\ builds = 2
    /\ ~config.debug_fs
    /\ raised = "none"
    /\ Len(categories) = 2
    /\ Len(files) > Len(InputFiles)

-----------------------------------------------------------------------------
(* Claims about on_nav, checked under SpecNav *)

\* the title of item i and base_name are equal up to letter case
MatchesBaseName(i) == nav[i].is_section /\ Lower(nav[i].title) = Lower(config.base_name)

\* C10: with no_nav set, on_nav removes exactly the first section whose title
\* equals base_name up to letter case and keeps every other item in order;
\* with no_nav unset, or when no section matches, it returns nav unchanged.
C10_NavSectionRemoved ==
    [][(pc = "idle" /\ pc' = "on_nav")
          => IF config.no_nav /\ \E i \in 1..Len(nav) : MatchesBaseName(i)
             THEN LET first == CHOOSE i \in 1..Len(nav) :
                                  /\ MatchesBaseName(i)
                                  /\ \A j \in 1..(i - 1) : ~MatchesBaseName(j)
                  IN nav' = SubSeq(nav, 1, first - 1) \o SubSeq(nav, first + 1, Len(nav))
             ELSE nav' = nav]_vars

-----------------------------------------------------------------------------
(* Claims about the generated documents, checked under SpecSite *)

\* on_files of the running build has returned
Scanned_ok == pc \in {"on_files", "on_page_markdown"} /\ raised = "none"

\* the number of ancestors of a node: the nodes above it on its parent chain
Ancestors(cats, node) == Len(get_breadcrumb_keys(cats, node.key).lineage) - 1

\* the hierarchy line a node is to get
HierarchyLine(cats, node) ==
    [indent |-> Ancestors(cats, node),
     link   |-> CategoryLink(node),
     count  |-> Len(node.pages)]

\* the number of categories entries of the scanned pages that name the key
DirectCount(k) ==
    Cardinality({<<i, j>> \in (1..Len(InputFiles)) \X (1..MaxListed + 1) :
                    /\ Categorized(InputFiles[i])
                    /\ j <= Len(InputFiles[i].categories.items)
                    /\ PathKey(Split(InputFiles[i].categories.items[j],
                                     config.category_separator)) = k})

\* C11: render_category_hierarchy(None) has one line per node of the store
\* (as many lines as the total the index document states), the line of a
\* node is indented by the number of its ancestors and lies in the subtree
\* below its parent's line, and the count on it is the number of pages
\* attached to the node itself; the index document on_files wrote holds
\* this total and these lines.
C11_HierarchyExact ==
    LET lines == render_category_hierarchy(categories, None, 0)
        HL(n) == HierarchyLine(categories, categories[n])
    IN /\ Len(lines) = Len(categories)
       /\ \A n \in 1..Len(categories) :
             Cardinality({i \in 1..Len(lines) : lines[i] = HL(n)})
                 = Cardinality({m \in 1..Len(categories) : HL(m) = HL(n)})
       /\ \A n \in 1..Len(categories) :
             categories[n].parent # None =>
                 \E i \in 1..Len(lines) : \E j \in (i + 1)..Len(lines) :
                     /\ lines[i] = HierarchyLine(categories,
                                                 Node(categories, categories[n].parent))
                     /\ lines[j] = HL(n)
                     /\ lines[j].indent = lines[i].indent + 1
                     /\ \A m \in (i + 1)..j : lines[m].indent > lines[i].indent
       /\ Scanned_ok =>
             \A n \in 1..Len(categories) :
                 Len(categories[n].pages) = DirectCount(categories[n].key)
       /\ (Scanned_ok /\ config.generate_index) =>
             /\ IndexFileName \in DOMAIN scratch.docs
             /\ scratch.docs[IndexFileName].total = Len(lines)
             /\ scratch.docs[IndexFileName].lines = lines

\* C11 witness: on_files wrote the index for a store in which a category
\* with a page of its own lies below a category that has none
C11_Witness ==
    /\ pc = "on_files"
    /\ raised = "none"
    /\ config.generate_index
    /\ Len(categories) >= 3
    /\ \E n \in 1..Len(categories) :
          /\ categories[n].parent # None
          /\ Len(categories[n].pages) = 1
          /\ Node(categories, categories[n].parent).pages = <<>>
          /\ \E i \in 1..Len(scratch.docs[IndexFileName].lines) :
                scratch.docs[IndexFileName].lines[i] =
                    [indent |-> 1, link |-> CategoryLink(categories[n]), count |-> 1]

\* the documents and descriptors on_files generated: what it appended to the
\* collection it was handed
Appended == SubSeq(files, Len(InputFiles) + 1, Len(files))

\* C12 as stated: after on_files, the file <slug>.md of every category holds
\* the document rendered from that category, index.md holds the index
\* document when generate_index is set, and one descriptor per category
\* (plus one for the index) has been appended to the file collection.
C12_DocumentPerCategory ==
    (pc = "on_files" /\ raised = "none") =>
        /\ \A n \in 1..Len(categories) :
              /\ FileName(categories[n].slug) \in DOMAIN scratch.docs
              /\ scratch.docs[FileName(categories[n].slug)]
                    = CategoryDocument(categories, categories[n], config)
        /\ config.generate_index =>
              /\ IndexFileName \in DOMAIN scratch.docs
              /\ scratch.docs[IndexFileName] = IndexDocument(categories)
        /\ Len(Appended) = Len(categories) + (IF config.generate_index THEN 1 ELSE 0)
        /\ \A n \in 1..Len(categories) :
              Appended[n] = GeneratedFile(FileName(categories[n].slug))

\* the last category in store order that has the slug of category n
LastWithSlug(n) ==
    CHOOSE m \in n..Len(categories) :
        /\ categories[m].slug = categories[n].slug
        /\ \A l \in (m + 1)..Len(categories) : categories[l].slug # categories[n].slug

\* C12 amended: after on_files, the file <slug>.md of every category exists
\* and holds the document of the last category in store order with that slug
\* (index.md holds the index document when generate_index is set, also when
\* a category has the slug "index"), the scratch directory holds no other
\* file, and the descriptors appended are one per category in store order,
\* followed by the one of the index.
C12_LastWriterPerSlug ==
    (pc = "on_files" /\ raised = "none") =>
        /\ \A n \in 1..Len(categories) :
              /\ FileName(categories[n].slug) \in DOMAIN scratch.docs
              /\ scratch.docs[FileName(categories[n].slug)]
                    = IF config.generate_index /\ FileName(categories[n].slug) = IndexFileName
                      THEN IndexDocument(categories)
                      ELSE CategoryDocument(categories, categories[LastWithSlug(n)], config)
        /\ config.generate_index =>
              /\ IndexFileName \in DOMAIN scratch.docs
              /\ scratch.docs[IndexFileName] = IndexDocument(categories)
        /\ DOMAIN scratch.docs
              = {FileName(categories[n].slug) : n \in 1..Len(categories)}
                \cup (IF config.generate_index THEN {IndexFileName} ELSE {})
        /\ Appended
              = [n \in 1..Len(categories) |-> GeneratedFile(FileName(categories[n].slug))]
                \o (IF config.generate_index THEN <<GeneratedFile(IndexFileName)>> ELSE <<>>)

\* C12 witness: two categories of the store have one slug and the file of
\* that name holds the document of the later one
C12_Witness ==
    /\ pc = "on_files"
    /\ raised = "none"
    /\ \E n \in 1..Len(categories) : \E m \in (n + 1)..Len(categories) :
          /\ categories[n].slug = categories[m].slug
          /\ m = LastWithSlug(n)
          /\ scratch.docs[FileName(categories[n].slug)]
                = CategoryDocument(categories, categories[m], config)
          /\ CategoryDocument(categories, categories[m], config)
                # CategoryDocument(categories, categories[n], config)

\* the display names the hierarchy listing shows directly under parent_key,
\* in the order of their lines
RenderedSiblings(cats, parent_key) ==
    LET top == SelectSeq(render_category_hierarchy(cats, parent_key, 0),
                         LAMBDA line : line.indent = 0)
    IN [i \in 1..Len(top) |-> top[i].link.text]

\* the levels of the hierarchy: the roots and the children of each node
Levels(cats) == Keys(cats) \cup {None}

\* the categories list of the scanned page in another order
Reordered(items, o) == [i \in 1..Len(items) |-> items[o[i]]]

\* the store a scan builds from the categories list of page 1 in order o
StoreOfOrder(o) ==
    define_categories(<<>>, EmptyDict,
                      <<[InputFiles[1] EXCEPT !.categories.items = Reordered(@, o)]>>,
                      config).cats

\* C13 as stated: at every level the siblings are rendered in natural order
\* of their names, and this order is the same for every order in which the
\* same categories could have been registered.
C13_NaturalOrderAnyRegistration ==
    (pc = "on_files" /\ raised = "none") =>
        /\ \A K \in Levels(categories) :
              LET r == RenderedSiblings(categories, K)
              IN \A i \in 1..Len(r) : \A j \in (i + 1)..Len(r) : ~NatLess(r[j], r[i])
        /\ \A o \in SetOrders(1..Len(InputFiles[1].categories.items)) :
              LET other == StoreOfOrder(o)
              IN \A K \in Levels(categories) \cap Levels(other) :
                    Range(RenderedSiblings(other, K)) = Range(RenderedSiblings(categories, K))
                        => RenderedSiblings(other, K) = RenderedSiblings(categories, K)

\* the position in the store of the child of parent_key with the given name
SiblingPos(cats, parent_key, name) ==
    CHOOSE n \in 1..Len(cats) : cats[n].parent = parent_key /\ cats[n].name = name

\* C13 amended: at every level the listing shows every sibling once, in
\* non-decreasing natural order of the names (digit runs by value: "2"
\* before "10"), which fixes the order of names whose natural-sort keys
\* differ whatever the registration order; names whose keys are equal ("2"
\* and "02") are shown in the order in which they were first registered.
C13_StableNaturalOrder ==
    \A K \in Levels(categories) :
        LET r == RenderedSiblings(categories, K)
            sibs == {n \in 1..Len(categories) : categories[n].parent = K}
        IN /\ Len(r) = Cardinality(sibs)
           /\ Range(r) = {categories[n].name : n \in sibs}
           /\ \A i \in 1..Len(r) : \A j \in (i + 1)..Len(r) :
                 /\ r[i] # r[j]
                 /\ ~NatLess(r[j], r[i])
                 /\ NatKey(r[i]) # NatKey(r[j]) => NatLess(r[i], r[j])
                 /\ NatKey(r[i]) = NatKey(r[j])
                       => SiblingPos(categories, K, r[i]) < SiblingPos(categories, K, r[j])
                 /\ (r[j] = <<"2">> \/ r[j] = <<"0", "2">>) => r[i] # <<"1", "0">>

\* C13 witness: "10", "2" and "02" were registered in this order and the
\* index lists them as "2", "02", "10"
C13_Witness ==
    /\ pc = "on_files"
    /\ raised = "none"
    /\ config.generate_index
    /\ Len(categories) = 3
    /\ categories[1].name = <<"1", "0">>
    /\ categories[2].name = <<"2">>
    /\ [i \in 1..3 |-> scratch.docs[IndexFileName].lines[i].link.text]
          = <<<<"2">>, <<"0", "2">>, <<"1", "0">>>>

\* the line of the appended section for an owning category: the link to the
\* category, or with show_breadcrumbs the links of its lineage, root first
BackReference(k, src_uri) ==
    IF config.show_breadcrumbs
    THEN LET l == get_breadcrumb_keys(categories, k).lineage
         IN [i \in 1..Len(l) |-> PageLink(Node(categories, l[i]), get_relative_url(src_uri))]
    ELSE <<PageLink(Node(categories, k), get_relative_url(src_uri))>>

\* C18: on_page_markdown changes neither store and returns the body it was
\* given, with nothing appended for a page that is not in the Page Index
\* and otherwise one section appended that has one line per key of the
\* page's Page Index entry: the link to that category or, with
\* show_breadcrumbs, the chain of links that starts at a root category,
\* follows the parent fields and ends at that category.
C18_BackReferences ==
    [][pc' = "on_page_markdown"
          => /\ categories' = categories
             /\ pages' = pages
             /\ ret'.markdown = page'.markdown
             /\ IF page'.src_uri \notin DOMAIN pages
                THEN ret'.appended = <<>>
                ELSE /\ Len(ret'.appended) = 1
                     /\ ret'.appended[1].heading = config.section_title
                     /\ LET lines == ret'.appended[1].lines
                            owned == pages[page'.src_uri]
                            u     == page'.src_uri
                        IN /\ Len(lines) = Cardinality(owned)
                           /\ \A k \in owned :
                                 /\ Cardinality({i \in 1..Len(lines) :
                                                    lines[i] = BackReference(k, u)})
                                       = Cardinality({k2 \in owned :
                                                        BackReference(k2, u) = BackReference(k, u)})
                                 /\ BackReference(k, u)[Len(BackReference(k, u))]
                                       = PageLink(Node(categories, k), get_relative_url(u))
                                 /\ Len(BackReference(k, u))
                                       = IF config.show_breadcrumbs
                                         THEN Ancestors(categories, Node(categories, k)) + 1
                                         ELSE 1]_vars

\* C18 witness: a page listed three times, twice under one two-segment
\* category, got two lines with show_breadcrumbs set, one of them a chain of
\* two links
C18_Witness ==
    /\ pc = "on_page_markdown"
    /\ config.show_breadcrumbs
    /\ page.src_uri \in DOMAIN pages
    /\ Len(files[page.index].categories.items) = 3
    /\ Cardinality(pages[page.src_uri]) = 2
    /\ ret.markdown = page.markdown
    /\ Len(ret.appended[1].lines) = 2
    /\ \E i \in 1..2 : Len(ret.appended[1].lines[i]) = 2

-----------------------------------------------------------------------------
(* Claims about the two representations of the tree, checked under Spec *)

\* C14: for all nodes c and p of the store, c's parent is p's key exactly if
\* c's key is in p's children, no children list holds a key twice, and the
\* Subcategories section of p's document links exactly the nodes the
\* hierarchy index shows directly under p.
C14_ParentChildrenAgree ==
    \A p \in 1..Len(categories) :
        /\ \A c \in 1..Len(categories) :
              (categories[c].parent = categories[p].key)
                  <=> (categories[c].key \in Range(categories[p].children))
        /\ \A i \in 1..Len(categories[p].children) :
              \A j \in 1..Len(categories[p].children) :
                  categories[p].children[i] = categories[p].children[j] => i = j
        /\ Range(render_child_categories(categories, categories[p]))
              = {line.link : line \in
                    {l \in Range(render_category_hierarchy(categories, categories[p].key, 0)) :
                        l.indent = 0}}

\* C16: whatever preceded it in a build that on_config initialized,
\* on_build_error raises nothing, leaves both stores empty and, with debug_fs
\* false, leaves no scratch directory; also when on_post_build of the same
\* build has already removed the directory.
C16_ErrorCleanupSafe ==
    [][(Initialized /\ pc' = "on_build_error")
          => /\ raised' = "none"
             /\ categories' = <<>>
             /\ pages' = EmptyDict
             /\ ~config.debug_fs => ~scratch'.exists]_vars

-----------------------------------------------------------------------------
(* Claims about registration order and register_page, checked under SpecStore *)

\* the forest a store holds: its nodes without their pages, the children as
\* a set
Shape(cats) ==
    {[key      |-> cats[n].key,
      name     |-> cats[n].name,
      parent   |-> cats[n].parent,
      slug     |-> cats[n].slug,
      children |-> Range(cats[n].children)] : n \in 1..Len(cats)}

\* the store after ensure_path was called for the paths of a sequence in turn
RECURSIVE StoreOfPaths(_, _)
StoreOfPaths(cats, paths) ==
    IF paths = <<>> THEN cats
    ELSE StoreOfPaths(ensure_path(cats, Head(paths)).cats, Tail(paths))

\* C15: the paths registered so far, registered in any other order, give
\* the same node keys with the same name, parent and slug on each node and
\* the same set of children per node.
C15_OrderIndependent ==
    \A o \in SetOrders(declared) : Shape(StoreOfPaths(<<>>, o)) = Shape(categories)

\* the pages attached to the node of a key, none when the store has no such node
PagesOf(cats, k) == IF HasKey(cats, k) THEN Node(cats, k).pages ELSE <<>>

\* C17: a call register_page(P, u, t) that returns appends the one entry
\* {t, u} to the pages of the node ensure_path(P) returns, the deepest node
\* of P, whether or not the entry is already there; the pages of every other
\* node, the other fields of every node and the Page Index entry of every
\* other page are as before the call, and the key of the node is added to
\* the Page Index entry of u.
C17_RegisterFrame ==
    [][\A P \in declared' : \A u \in DOMAIN pages' : \A t \in PageTitles :
          (RegisterPage(P, u, t) /\ raised' = "none")
              => \A e \in {ensure_path(categories, P)} : \A k \in {PathKey(P)} :
                    /\ e.result = k
                    /\ Keys(categories') = Keys(e.cats)
                    /\ PagesOf(categories', k)
                          = Append(PagesOf(categories, k), [title |-> t, url |-> u])
                    /\ \A n \in 1..Len(categories') :
                          /\ categories'[n].key # k
                                => categories'[n].pages
                                      = PagesOf(categories, categories'[n].key)
                          /\ [categories'[n] EXCEPT !.pages = <<>>]
                                = [e.cats[n] EXCEPT !.pages = <<>>]
                    /\ DOMAIN pages' = DOMAIN pages \cup {u}
                    /\ pages'[u] = (IF u \in DOMAIN pages THEN pages[u] ELSE {}) \cup {k}
                    /\ \A v \in DOMAIN pages \ {u} : pages'[v] = pages[v]]_vars

\* C17 witness: the same page was registered twice under a two-segment path;
\* the deepest node holds the entry twice and its parent holds none
C17_Witness ==
    /\ pc = "register_page"
    /\ raised = "none"
    /\ calls = 2
    /\ \E n \in 1..Len(categories) :
          /\ categories[n].parent # None
          /\ Len(categories[n].pages) = 2
          /\ categories[n].pages[1] = categories[n].pages[2]
          /\ Node(categories, categories[n].parent).pages = <<>>
          /\ pages[categories[n].pages[1].url] = {categories[n].key}

====
